---- MODULE Spec2Model ----
(***************************************************************************)
(* Model of src/main.cpp: the execute_around and safe_ptr wrappers, their  *)
(* accessor classes (execute_around::proxy, safe_ptr::auto_lock_t and      *)
(* safe_ptr::auto_lock_obj_t), and the two tests that use them             *)
(* (test_execute_around on the main thread, test_safe_ptr with its worker  *)
(* threads running func).                                                  *)
(*                                                                         *)
(* A handle (execute_around or safe_ptr object) is a pair of shared_ptr:   *)
(* one to the value, one to the mutex.  A value or mutex allocated by a    *)
(* handle's constructor is named after that handle; a copy of the handle   *)
(* holds the same two names.                                               *)
(***************************************************************************)
EXTENDS Integers, Sequences, FiniteSets, TLC

\* ---------------------------------------------------------------- bounds
\* number of worker threads of test_safe_ptr (10 in the program)
NThreads == 2
\* iterations of func's increment loop (10000 in the program)
K == 2
\* number of extra execute_around handles of the copy harness
NCopies == 2
\* accesses each client thread of the copy harness makes
MaxAccess == 2
\* proxies the clients of the copy harness move-construct, all together
MaxMoves == 1

\* ------------------------------------------------------ program constants
VecSize == 10
VecFill == 10

\* ------------------------------------------------------------- identities
Workers == 1..NThreads
MainThread == 0
Threads == {MainThread} \cup Workers
NoThread == -1
NULL == [h |-> "null", t |-> NoThread]

\* safe_ptr handles: the global, each thread object's stored (decayed) copy,
\* func's by-value parameter, func's const local copy
SafeHandles ==
    {[h |-> "global", t |-> MainThread]}
        \cup [h : {"stored", "param", "readonly"}, t : Workers]
Global == [h |-> "global", t |-> MainThread]
Stored(t) == [h |-> "stored", t |-> t]
Param(t) == [h |-> "param", t |-> t]
ReadOnly(t) == [h |-> "readonly", t |-> t]

\* execute_around handles: vecc of test_execute_around, and the copies the
\* copy harness makes of it (t is the copy's number)
Vecc == [h |-> "vecc", t |-> MainThread]
Copy(n) == [h |-> "copy", t |-> n]
AroundHandles == {Vecc} \cup {Copy(n) : n \in 1..NCopies}

Handles == SafeHandles \cup AroundHandles

NullHandle == [ptr |-> NULL, mtx |-> NULL]

Keys == {"apple", "potato"}
Label(k) == IF k = "apple" THEN "fruit" ELSE "vegetable"

\* accessor instances, one per place and evaluation that constructs one
MainAccIds ==
    [t : {MainThread}, site : {"L127", "L132", "L139"}, n : {1, 2}]
        \cup [t : {MainThread}, site : {"tmp"}, n : {1, 2}]
WorkerAccIds ==
    [t : Workers, site : {"L107", "L108"}, n : {0}]
        \cup [t : Workers, site : {"L111", "L112"}, n : 0..(K - 1)]
        \cup [t : Workers, site : {"L117"}, n : 1..4]
HarnessAccIds == [t : Workers, site : {"harness", "hmoved"}, n : 0..(MaxAccess - 1)]
AccIds == MainAccIds \cup WorkerAccIds \cup HarnessAccIds
AccId(t, site, n) == [t |-> t, site |-> site, n |-> n]

VARIABLES
    handle,     \* handle -> [ptr, mtx]: the two shared_ptr members
    mapval,     \* value name -> the std::map held by a safe_ptr value
    vecval,     \* value name -> the std::vector held by an execute_around value
    mtx,        \* mutex name -> [owner, count] of the std::recursive_mutex
    acc,        \* accessor instance -> its state
    temps,      \* thread -> stack of the temporaries of its current full-expression
    pc,         \* thread -> position
    i,          \* worker -> loop counter of func
    reg,        \* worker -> value loaded by the increment in progress
    printed,    \* worker -> what its final output statement has read so far
    res,        \* test_execute_around's res
    todo        \* main: the tests of test_table still to run, in iteration order

vars == <<handle, mapval, vecval, mtx, acc, temps, pc, i, reg, printed, res, todo>>

\* ------------------------------------------------------- values
AbsentEntry == [present |-> FALSE, first |-> "", second |-> 0]
EmptyMap == [k \in Keys |-> AbsentEntry]
EmptyVec == << >>
NoAcc == [st |-> "none", thread |-> NoThread, ptr |-> NULL, mtx |-> NULL,
          flavor |-> "x", depth |-> 0, acqs |-> 0, releases |-> 0]
Gone == [NoAcc EXCEPT !.st = "gone"]
FreeMtx == [owner |-> NoThread, count |-> 0]

RECURSIVE SumSeq(_)
\* std::accumulate(first, last, 0) over a whole vector
SumSeq(s) == IF s = << >> THEN 0 ELSE Head(s) + SumSeq(Tail(s))

\* mutant: operator[] that value-initialises the entry whether or not the key
\* is present
MapIndex_Reset(m, k) == [m EXCEPT ![k] = [present |-> TRUE, first |-> "", second |-> 0]]
\* std::map::operator[]: inserts a value-initialised pair when the key is absent
MapIndex(m, k) ==
    IF m[k].present THEN m
    ELSE [m EXCEPT ![k] = [present |-> TRUE, first |-> "", second |-> 0]]

\* ------------------------------------------------------- std::recursive_mutex
\* mutant: lock() never waits
MtxCanLock_NoWait(m, t) == TRUE
\* mutant: a plain std::mutex, which its owner cannot lock again
MtxCanLock_NonRecursive(m, t) == mtx[m].owner = NoThread
\* lock() returns only when no other thread owns the mutex
MtxCanLock(m, t) == mtx[m].owner \in {NoThread, t}
MtxLock(m, t) == [owner |-> t, count |-> mtx[m].count + 1]
\* mutant: the last unlock() leaves the owner in place
MtxUnlock_KeepOwner(m) == [owner |-> mtx[m].owner, count |-> mtx[m].count - 1]
\* unlock() by the owning thread: the mutex is free after the last level
MtxUnlock(m) ==
    IF mtx[m].count = 1 THEN FreeMtx
    ELSE [owner |-> mtx[m].owner, count |-> mtx[m].count - 1]

\* ------------------------------------------------------- handles
\* safe_ptr(Args...): a fresh value and a fresh mutex
SafePtrNew(h) == [ptr |-> h, mtx |-> h]
\* mutant: a copy constructor that allocates a value and a mutex of its own
SafePtrCopy_Deep(dst, src) == [ptr |-> dst, mtx |-> dst]
\* the implicit copy constructor of safe_ptr copies both shared_ptr members:
\* the new handle dst owns the value and the mutex of src with it
SafePtrCopy(dst, src) == [ptr |-> handle[src].ptr, mtx |-> handle[src].mtx]
\* the implicit move constructor: mtx_ptr is moved, the const member ptr is copied
SafePtrMovedFrom(src) == [ptr |-> handle[src].ptr, mtx |-> NULL]
\* execute_around(Args...): a fresh value and a fresh mutex
AroundNew(h) == [ptr |-> h, mtx |-> h]
\* mutant: a copy constructor that allocates a value and a mutex of its own
AroundCopy_Deep(dst, src) == [ptr |-> dst, mtx |-> dst]
\* the implicit copy constructor of execute_around copies both shared_ptr
\* members: the new handle dst owns the value and the mutex of src with it
AroundCopy(dst, src) == [ptr |-> handle[src].ptr, mtx |-> handle[src].mtx]

\* number of shared_ptr owners of a value / of a mutex
ValOwners(v) == {h \in Handles : handle[h].ptr = v}
MtxOwners(m) == {h \in Handles : handle[h].mtx = m}

\* ------------------------------------------------------- accessors
\* mutant: s_lock_t behaves as a shared lock, which waits for exclusive
\* holders only
LockCanAcquire_SharedMode(flavor, m, t) ==
    IF flavor = "s"
    THEN \A a \in AccIds :
            (acc[a].st = "locked" /\ acc[a].mtx = m /\ acc[a].thread # t)
                => acc[a].flavor = "s"
    ELSE MtxCanLock(m, t)
\* Flavor of the accessor an operator returns: x_lock_t for the non-const
\* operators, s_lock_t for the const ones.  Both default to
\* std::unique_lock<std::recursive_mutex>.
LockCanAcquire(flavor, m, t) == MtxCanLock(m, t)

\* accessor constructor (proxy, auto_lock_t, auto_lock_obj_t): the unique_lock
\* member locks the mutex, the raw pointer is stored
Construct(a, t, p, m, flavor) ==
    /\ LockCanAcquire(flavor, m, t)
    /\ acc[a].st = "none"
    /\ mtx' = [mtx EXCEPT ![m] = MtxLock(m, t)]
    /\ acc' = [acc EXCEPT ![a] = [st |-> "locked", thread |-> t, ptr |-> p,
                                  mtx |-> m, flavor |-> flavor,
                                  depth |-> mtx[m].count + 1, acqs |-> 1,
                                  releases |-> 0]]

\* what is left of an accessor once its destructor has run
Destroyed(a, n) ==
    [NoAcc EXCEPT !.st = "unlocked", !.mtx = acc[a].mtx, !.acqs = acc[a].acqs,
                  !.releases = n]

\* accessor destructor on a live accessor: the unique_lock member owns the
\* mutex and unlocks it
Destroy(a) ==
    /\ acc[a].st = "locked"
    /\ mtx' = [mtx EXCEPT ![acc[a].mtx] = MtxUnlock(acc[a].mtx)]
    /\ acc' = [acc EXCEPT ![a] = Destroyed(a, acc[a].releases + 1)]

\* the source of a move: std::move(o.lock) leaves its unique_lock without a
\* mutex and not owning
MovedFrom(a) == [acc[a] EXCEPT !.st = "moved"]

\* accessor move constructor: b is constructed from a; the unique_lock member
\* is moved, the raw pointer copied; the mutex is not touched
MoveConstruct(b, a) ==
    /\ acc[a].st = "locked"
    /\ acc[b].st = "none"
    /\ acc' = [acc EXCEPT ![b] = [acc[a] EXCEPT !.acqs = 0, !.releases = 0],
                          ![a] = MovedFrom(a)]
    /\ UNCHANGED mtx

\* accessor destructor on a moved-from accessor: its unique_lock owns nothing
\* and unlocks nothing
DestroyMovedFrom(a) ==
    /\ acc[a].st = "moved"
    /\ acc' = [acc EXCEPT ![a] = [Destroyed(a, acc[a].releases) EXCEPT !.st = "spent"]]
    /\ UNCHANGED mtx

\* the live accessors of a thread on a mutex
Live(t, m) == {a \in AccIds : acc[a].st = "locked" /\ acc[a].thread = t /\ acc[a].mtx = m}

\* ------------------------------------------------------- positions
At(t, l, s) == pc[t] = [l |-> l, s |-> s]
Goto(t, l, s) == pc' = [pc EXCEPT ![t] = [l |-> l, s |-> s]]
\* mutant: the temporaries are destroyed first constructed first
Top_Oldest(t) == temps[t][Len(temps[t])]
\* the temporary constructed last
Top(t) == Head(temps[t])
Push(t, a) == temps' = [temps EXCEPT ![t] = <<a>> \o @]

\* The statement that follows a full-expression; n is the value of func's
\* loop counter after it (for(size_t i = 0; i < 10000; ++i): the test i < K
\* decides between another round and the statement after the loop).
AfterExpr(l, n) ==
    CASE l = "L107" -> [l |-> "L108", s |-> "acq"]
      [] l \in {"L108", "L112"} ->
            IF n < K THEN [l |-> "L111", s |-> "acq"] ELSE [l |-> "L115", s |-> "copy"]
      [] l = "L111" -> [l |-> "L112", s |-> "acq"]
      [] l = "L117" -> [l |-> "L121", s |-> "ret"]
      [] l = "L127" -> [l |-> "L132", s |-> "args"]
      [] l = "L132" -> [l |-> "L139", s |-> "args"]
      [] l = "L139" -> [l |-> "L149", s |-> "ctor"]

\* key a statement of func works on
KeyOf(l) == IF l \in {"L107", "L111"} THEN "apple" ELSE "potato"

\* the four reads of func's output statement, in the order they are written
FieldKey(n) == IF n \in {1, 2} THEN "potato" ELSE "apple"
FieldIsCount(n) == n \in {2, 4}
Unread == [read |-> FALSE, first |-> "", second |-> 0]

\* ------------------------------------------------------- func (worker threads)
\* the new thread calls func with its stored copy of the handle, moved into
\* the by-value parameter
ThreadStart(t) ==
    /\ At(t, "L105", "call")
    /\ handle' = [handle EXCEPT ![Param(t)] = SafePtrCopy(Param(t), Stored(t)),
                                ![Stored(t)] = SafePtrMovedFrom(Stored(t))]
    /\ Goto(t, "L107", "acq")
    /\ UNCHANGED <<mapval, vecval, mtx, acc, temps, i, reg, printed, res, todo>>

\* (*safe_map_strings): operator*() returns an auto_lock_obj_t<x_lock_t>
IndexAccess(t) ==
    /\ pc[t].l \in {"L107", "L108"} /\ pc[t].s = "acq"
    /\ Construct(AccId(t, pc[t].l, 0), t, handle[Param(t)].ptr, handle[Param(t)].mtx, "x")
    /\ Push(t, AccId(t, pc[t].l, 0))
    /\ Goto(t, pc[t].l, "op")
    /\ UNCHANGED <<handle, mapval, vecval, i, reg, printed, res, todo>>

\* [key].first = label through the auto_lock_obj_t
IndexWrite(t) ==
    /\ pc[t].l \in {"L107", "L108"} /\ pc[t].s = "op"
    /\ LET k == KeyOf(pc[t].l)
           v == acc[Top(t)].ptr
       IN mapval' = [mapval EXCEPT ![v] = [MapIndex(@, k) EXCEPT ![k].first = Label(k)]]
    /\ Goto(t, pc[t].l, "end")
    /\ UNCHANGED <<handle, vecval, mtx, acc, temps, i, reg, printed, res, todo>>

\* safe_map_strings->: operator->() returns an auto_lock_t<x_lock_t>
ArrowAccess(t) ==
    /\ pc[t].l \in {"L111", "L112"} /\ pc[t].s = "acq"
    /\ Construct(AccId(t, pc[t].l, i[t]), t, handle[Param(t)].ptr, handle[Param(t)].mtx, "x")
    /\ Push(t, AccId(t, pc[t].l, i[t]))
    /\ Goto(t, pc[t].l, "load")
    /\ UNCHANGED <<handle, mapval, vecval, i, reg, printed, res, todo>>

\* at("apple").second / find("potato")->second.second is read for the ++
Load(t) ==
    /\ pc[t].l \in {"L111", "L112"} /\ pc[t].s = "load"
    /\ LET e == mapval[acc[Top(t)].ptr][KeyOf(pc[t].l)]
       IN IF e.present
          THEN /\ reg' = [reg EXCEPT ![t] = e.second]
               /\ Goto(t, pc[t].l, "store")
          ELSE \* at() throws std::out_of_range: std::terminate
               /\ Goto(t, "abort", "abort")
               /\ UNCHANGED reg
    /\ UNCHANGED <<handle, mapval, vecval, mtx, acc, temps, i, printed, res, todo>>

\* the incremented value is written back
Store(t) ==
    /\ pc[t].l \in {"L111", "L112"} /\ pc[t].s = "store"
    /\ mapval' = [mapval EXCEPT ![acc[Top(t)].ptr][KeyOf(pc[t].l)].second = reg[t] + 1]
    /\ reg' = [reg EXCEPT ![t] = 0]
    /\ Goto(t, pc[t].l, "end")
    /\ UNCHANGED <<handle, vecval, mtx, acc, temps, i, printed, res, todo>>

\* End of a full-expression: its temporaries are destroyed, last constructed
\* first.  After the last one the thread is at the next statement; the values
\* the output statement read have gone to std::cout.
EndFullExpr(t) ==
    /\ pc[t].s = "end"
    /\ temps[t] # << >>
    /\ Destroy(Top(t))
    /\ temps' = [temps EXCEPT ![t] = Tail(@)]
    /\ IF Len(temps[t]) = 1
       THEN LET n == IF pc[t].l = "L112" THEN i[t] + 1 ELSE i[t]
            IN /\ pc' = [pc EXCEPT ![t] = AfterExpr(pc[t].l, n)]
               /\ i' = [i EXCEPT ![t] = n]
               /\ printed' = IF pc[t].l = "L117"
                             THEN [printed EXCEPT ![t] = [j \in 1..4 |-> Unread]]
                             ELSE printed
       ELSE UNCHANGED <<pc, i, printed>>
    /\ UNCHANGED <<handle, mapval, vecval, reg, res, todo>>

\* auto const readonly_safe_map_string = safe_map_strings;
CopyReadOnly(t) ==
    /\ At(t, "L115", "copy")
    /\ handle' = [handle EXCEPT ![ReadOnly(t)] = SafePtrCopy(ReadOnly(t), Param(t))]
    /\ Goto(t, "L117", "acq")
    /\ UNCHANGED <<mapval, vecval, mtx, acc, temps, i, reg, printed, res, todo>>

\* readonly_safe_map_string->: the const operator->() returns an
\* auto_lock_t<s_lock_t>.  The four operands of the output statement are taken
\* left to right, the order of a chain of << since C++17; n is the operand
\* whose turn it is.
ConstArrowAccess(t) ==
    /\ At(t, "L117", "acq")
    /\ LET n == Len(temps[t]) + 1
       IN /\ Construct(AccId(t, "L117", n), t, handle[ReadOnly(t)].ptr,
                       handle[ReadOnly(t)].mtx, "s")
          /\ Push(t, AccId(t, "L117", n))
    /\ Goto(t, "L117", "read")
    /\ UNCHANGED <<handle, mapval, vecval, i, reg, printed, res, todo>>

\* what a read of the output statement yields for operand n from map entry e
FieldRead(n, e) ==
    IF FieldIsCount(n)
    THEN [read |-> TRUE, first |-> "", second |-> e.second]
    ELSE [read |-> TRUE, first |-> e.first, second |-> 0]

\* mutant: the accessor is released as soon as its read is made, not at the
\* end of the statement
ReadField_Release(t) ==
    /\ At(t, "L117", "read")
    /\ LET n == Len(temps[t])
       IN /\ printed' = [printed EXCEPT ![t][n] =
                            FieldRead(n, mapval[acc[Top(t)].ptr][FieldKey(n)])]
          /\ IF n = 4 THEN Goto(t, "L117", "end") ELSE Goto(t, "L117", "acq")
    /\ Destroy(Top(t))
    /\ UNCHANGED <<handle, mapval, vecval, temps, i, reg, res, todo>>

\* at(key).first / at(key).second through the accessor just constructed
ReadField(t) ==
    /\ At(t, "L117", "read")
    /\ LET n == Len(temps[t])
           e == mapval[acc[Top(t)].ptr][FieldKey(n)]
       IN IF e.present
          THEN /\ printed' = [printed EXCEPT ![t][n] = FieldRead(n, e)]
               /\ IF n = 4 THEN Goto(t, "L117", "end") ELSE Goto(t, "L117", "acq")
          ELSE \* at() throws std::out_of_range: std::terminate
               /\ Goto(t, "abort", "abort")
               /\ UNCHANGED printed
    /\ UNCHANGED <<handle, mapval, vecval, mtx, acc, temps, i, reg, res, todo>>

\* func returns: readonly_safe_map_string and the parameter are destroyed,
\* then the thread ends and its stored copy goes too
FuncReturn(t) ==
    /\ At(t, "L121", "ret")
    /\ handle' = [handle EXCEPT ![ReadOnly(t)] = NullHandle,
                                ![Param(t)] = NullHandle,
                                ![Stored(t)] = NullHandle]
    /\ Goto(t, "done", "done")
    /\ UNCHANGED <<mapval, vecval, mtx, acc, temps, i, reg, printed, res, todo>>

Worker(t) ==
    \/ ThreadStart(t) \/ IndexAccess(t) \/ IndexWrite(t)
    \/ ArrowAccess(t) \/ Load(t) \/ Store(t) \/ EndFullExpr(t)
    \/ CopyReadOnly(t) \/ ConstArrowAccess(t) \/ ReadField(t) \/ FuncReturn(t)

\* ------------------------------------------------------- main
Tmp(n) == AccId(MainThread, "tmp", n)

\* the loop of main over test_table calls the next test
Dispatch ==
    /\ At(MainThread, "L177", "loop")
    /\ IF todo = << >>
       THEN Goto(MainThread, "L190", "exit")
       ELSE IF Head(todo) = "test_execute_around"
            THEN Goto(MainThread, "L125", "ctor")
            ELSE Goto(MainThread, "L163", "spawn")
    /\ todo' = IF todo = << >> THEN todo ELSE Tail(todo)
    /\ UNCHANGED <<handle, mapval, vecval, mtx, acc, temps, i, reg, printed, res>>

\* return 0: the global safe_ptr is destroyed, and with the last owner the map
\* and the mutex
Exit ==
    /\ At(MainThread, "L190", "exit")
    /\ handle' = [handle EXCEPT ![Global] = NullHandle]
    /\ mapval' = [v \in SafeHandles |->
                    IF ValOwners(v) \subseteq {Global} THEN EmptyMap ELSE mapval[v]]
    /\ Goto(MainThread, "done", "done")
    /\ UNCHANGED <<vecval, mtx, acc, temps, i, reg, printed, res, todo>>

\* ------------------------------------------------------- test_safe_ptr
\* i = std::move(std::thread(func, safe_map_strings_global)): the thread object
\* stores a copy of the global handle
Spawn ==
    /\ At(MainThread, "L163", "spawn")
    /\ IF i[MainThread] < NThreads
       THEN /\ handle' = [handle EXCEPT ![Stored(i[MainThread] + 1)] =
                                  SafePtrCopy(Stored(i[MainThread] + 1), Global)]
            /\ pc' = [pc EXCEPT ![i[MainThread] + 1] = [l |-> "L105", s |-> "call"]]
            /\ i' = [i EXCEPT ![MainThread] = @ + 1]
       ELSE /\ Goto(MainThread, "L164", "join")
            /\ i' = [i EXCEPT ![MainThread] = 0]
            /\ UNCHANGED handle
    /\ UNCHANGED <<mapval, vecval, mtx, acc, temps, reg, printed, res, todo>>

\* i.join(): returns when the thread has finished
Join ==
    /\ At(MainThread, "L164", "join")
    /\ IF i[MainThread] < NThreads
       THEN /\ pc[i[MainThread] + 1].l = "done"
            /\ i' = [i EXCEPT ![MainThread] = @ + 1]
            /\ UNCHANGED pc
       ELSE /\ Goto(MainThread, "L177", "loop")
            /\ i' = [i EXCEPT ![MainThread] = 0]
    /\ UNCHANGED <<handle, mapval, vecval, mtx, acc, temps, reg, printed, res, todo>>

\* ------------------------------------------------------- test_execute_around
\* T vecc(10, 10)
VeccCtor ==
    /\ At(MainThread, "L125", "ctor")
    /\ handle' = [handle EXCEPT ![Vecc] = AroundNew(Vecc)]
    /\ vecval' = [vecval EXCEPT ![Vecc] = [j \in 1..VecSize |-> VecFill]]
    /\ Goto(MainThread, "L127", "args")
    /\ UNCHANGED <<mapval, mtx, acc, temps, i, reg, printed, res, todo>>

\* one argument of std::accumulate constructs its temporary proxy (n = 1 for
\* the begin() argument, 2 for end()): through operator->() at lines 127 and
\* 132-133, from get_p() and get_mtx() at lines 139-140; the order of the two
\* arguments is unspecified
ProxyArg(n) ==
    /\ pc[MainThread].l \in {"L127", "L132", "L139"} /\ pc[MainThread].s = "args"
    /\ Construct(AccId(MainThread, pc[MainThread].l, n), MainThread,
                 handle[Vecc].ptr, handle[Vecc].mtx, "x")
    /\ Push(MainThread, AccId(MainThread, pc[MainThread].l, n))
    /\ IF Len(temps[MainThread]) = 1
       THEN Goto(MainThread, pc[MainThread].l, "sum")
       ELSE UNCHANGED pc
    /\ UNCHANGED <<handle, mapval, vecval, i, reg, printed, res, todo>>

\* res = std::accumulate(begin, end, 0) through the two temporaries
Accumulate ==
    /\ pc[MainThread].l \in {"L127", "L132", "L139"} /\ pc[MainThread].s = "sum"
    /\ res' = SumSeq(vecval[acc[AccId(MainThread, pc[MainThread].l, 1)].ptr])
    /\ Goto(MainThread, pc[MainThread].l, "end")
    /\ UNCHANGED <<handle, mapval, vecval, mtx, acc, temps, i, reg, printed, todo>>

\* T::proxy tmp1(...); T::proxy tmp2(...);
NamedProxy ==
    /\ pc[MainThread].l \in {"L149", "L150"} /\ pc[MainThread].s = "ctor"
    /\ Construct(Tmp(IF pc[MainThread].l = "L149" THEN 1 ELSE 2), MainThread,
                 handle[Vecc].ptr, handle[Vecc].mtx, "x")
    /\ IF pc[MainThread].l = "L149"
       THEN Goto(MainThread, "L150", "ctor")
       ELSE Goto(MainThread, "L152", "sum")
    /\ UNCHANGED <<handle, mapval, vecval, temps, i, reg, printed, res, todo>>

\* res = std::accumulate(tmp1->begin(), tmp2->end(), 0)
AccumulateNamed ==
    /\ At(MainThread, "L152", "sum")
    /\ res' = SumSeq(vecval[acc[Tmp(1)].ptr])
    /\ Goto(MainThread, "L156", "dtor")
    /\ UNCHANGED <<handle, mapval, vecval, mtx, acc, temps, i, reg, printed, todo>>

\* tmp2.~proxy(); tmp1.~proxy();
ExplicitDtor ==
    /\ pc[MainThread].l \in {"L156", "L157"} /\ pc[MainThread].s = "dtor"
    /\ Destroy(Tmp(IF pc[MainThread].l = "L156" THEN 2 ELSE 1))
    /\ IF pc[MainThread].l = "L156"
       THEN Goto(MainThread, "L157", "dtor")
       ELSE Goto(MainThread, "L158", "tmp2")
    /\ UNCHANGED <<handle, mapval, vecval, temps, i, reg, printed, res, todo>>

\* unlock() of a recursive_mutex the caller does not own is undefined: the call
\* fails and changes nothing, or the hold count is decremented all the same
UnownedUnlock(m) ==
    {mtx[m], [owner |-> mtx[m].owner, count |-> mtx[m].count - 1]}

\* Scope exit of test_execute_around: the destructors of tmp2, then tmp1, run a
\* second time, on objects whose lifetime the explicit calls ended.  What the
\* dead unique_lock's owns flag reads is undefined: the destructor either
\* unlocks again or does nothing.
ScopeExitDtor ==
    /\ pc[MainThread].l = "L158" /\ pc[MainThread].s \in {"tmp2", "tmp1"}
    /\ LET a == Tmp(IF pc[MainThread].s = "tmp2" THEN 2 ELSE 1)
       IN \E owns \in BOOLEAN :
            IF owns
            THEN /\ \E m \in UnownedUnlock(acc[a].mtx) :
                       mtx' = [mtx EXCEPT ![acc[a].mtx] = m]
                 /\ acc' = [acc EXCEPT ![a].releases = @ + 1]
            ELSE UNCHANGED <<mtx, acc>>
    /\ IF pc[MainThread].s = "tmp2"
       THEN Goto(MainThread, "L158", "tmp1")
       ELSE Goto(MainThread, "L158", "vecc")
    /\ UNCHANGED <<handle, mapval, vecval, temps, i, reg, printed, res, todo>>

\* mutant: vecc is destroyed while tmp1 and tmp2 are held
VeccDtor_BeforeProxies ==
    /\ At(MainThread, "L156", "dtor")
    /\ handle' = [handle EXCEPT ![Vecc] = NullHandle]
    /\ vecval' = [vecval EXCEPT ![Vecc] = EmptyVec]
    /\ Goto(MainThread, "L177", "loop")
    /\ UNCHANGED <<mapval, mtx, acc, temps, i, reg, printed, res, todo>>

\* vecc is destroyed: it is the last owner, the vector and the mutex go with it;
\* the function returns and the storage of tmp1 and tmp2 goes with its frame
VeccDtor ==
    /\ At(MainThread, "L158", "vecc")
    /\ handle' = [handle EXCEPT ![Vecc] = NullHandle]
    /\ vecval' = [v \in AroundHandles |->
                    IF ValOwners(v) \subseteq {Vecc} THEN EmptyVec ELSE vecval[v]]
    /\ mtx' = [m \in Handles |->
                    IF MtxOwners(m) = {Vecc} THEN FreeMtx ELSE mtx[m]]
    /\ acc' = [a \in AccIds |-> IF a \in {Tmp(1), Tmp(2)} THEN Gone ELSE acc[a]]
    /\ Goto(MainThread, "L177", "loop")
    /\ UNCHANGED <<mapval, temps, i, reg, printed, res, todo>>

Main ==
    \/ Dispatch \/ Exit \/ Spawn \/ Join \/ VeccCtor
    \/ (\E n \in {1, 2} : ProxyArg(n)) \/ Accumulate \/ EndFullExpr(MainThread)
    \/ NamedProxy \/ AccumulateNamed \/ ExplicitDtor \/ ScopeExitDtor \/ VeccDtor

\* ------------------------------------------------------- specification
TestOrders ==
    {<<"test_execute_around", "test_safe_ptr">>, <<"test_safe_ptr", "test_execute_around">>}

Init ==
    /\ handle = [h \in Handles |-> IF h = Global THEN SafePtrNew(Global) ELSE NullHandle]
    /\ mapval = [v \in SafeHandles |-> EmptyMap]
    /\ vecval = [v \in AroundHandles |-> EmptyVec]
    /\ mtx = [m \in Handles |-> FreeMtx]
    /\ acc = [a \in AccIds |-> NoAcc]
    /\ temps = [t \in Threads |-> << >>]
    /\ pc = [t \in Threads |-> IF t = MainThread THEN [l |-> "L177", s |-> "loop"]
                                                ELSE [l |-> "idle", s |-> "idle"]]
    /\ i = [t \in Threads |-> 0]
    /\ reg = [t \in Workers |-> 0]
    /\ printed = [t \in Workers |-> [n \in 1..4 |-> Unread]]
    /\ res = 0
    /\ todo \in TestOrders

Next == Main \/ (\E t \in Workers : Worker(t))

Spec == Init /\ [][Next]_vars

\* fair scheduling: a thread that can take a step is not left out forever
FairSpec ==
    /\ Spec
    /\ WF_vars(Main)
    /\ \A t \in Workers : WF_vars(Worker(t))

\* ------------------------------------------------------- copy harness
\* Clients of execute_around: the handle vecc is copied, and threads reach the
\* vector through operator->() of any of the handles, writing or reading its
\* first element under the proxy.
HarnessValues == {VecFill, VecFill + 1}
HAcc(t) == AccId(t, "harness", i[t])
\* the proxy a client move-constructs from the one operator->() returned, and
\* the one of the two that holds the lock
HMoved(t) == AccId(t, "hmoved", i[t])
HHolder(t) == IF acc[HAcc(t)].st = "moved" THEN HMoved(t) ELSE HAcc(t)

HarnessInit ==
    /\ handle = [h \in Handles |-> IF h = Vecc THEN AroundNew(Vecc) ELSE NullHandle]
    /\ mapval = [v \in SafeHandles |-> EmptyMap]
    /\ vecval = [v \in AroundHandles |->
                    IF v = Vecc THEN [j \in 1..VecSize |-> VecFill] ELSE EmptyVec]
    /\ mtx = [m \in Handles |-> FreeMtx]
    /\ acc = [a \in AccIds |-> NoAcc]
    /\ temps = [t \in Threads |-> << >>]
    /\ pc = [t \in Threads |-> [l |-> "idle", s |-> "idle"]]
    /\ i = [t \in Threads |-> 0]
    /\ reg = [t \in Workers |-> 0]
    /\ printed = [t \in Workers |-> [n \in 1..4 |-> Unread]]
    /\ res = 0
    /\ todo = << >>

\* T copy = src;
HarnessCopy(n, src) ==
    /\ handle[Copy(n)] = NullHandle
    /\ handle[src] # NullHandle
    /\ handle' = [handle EXCEPT ![Copy(n)] = AroundCopy(Copy(n), src)]
    /\ UNCHANGED <<mapval, vecval, mtx, acc, temps, pc, i, reg, printed, res, todo>>

\* h->: operator->() returns a proxy
HarnessAccess(t, h) ==
    /\ i[t] < MaxAccess
    /\ handle[h] # NullHandle
    /\ Construct(HAcc(t), t, handle[h].ptr, handle[h].mtx, "x")
    /\ UNCHANGED <<handle, mapval, vecval, temps, pc, i, reg, printed, res, todo>>

\* T::proxy moved(std::move(px))
HarnessMove(t) ==
    /\ i[t] < MaxAccess
    /\ Cardinality({a \in HarnessAccIds : a.site = "hmoved" /\ acc[a].st # "none"}) < MaxMoves
    /\ MoveConstruct(HMoved(t), HAcc(t))
    /\ UNCHANGED <<handle, mapval, vecval, temps, pc, i, reg, printed, res, todo>>

\* h->front() = x
HarnessWrite(t, x) ==
    /\ i[t] < MaxAccess
    /\ acc[HHolder(t)].st = "locked"
    /\ vecval' = [vecval EXCEPT ![acc[HHolder(t)].ptr][1] = x]
    /\ UNCHANGED <<handle, mapval, mtx, acc, temps, pc, i, reg, printed, res, todo>>

\* h->front() is read
HarnessRead(t) ==
    /\ i[t] < MaxAccess
    /\ acc[HHolder(t)].st = "locked"
    /\ reg' = [reg EXCEPT ![t] = vecval[acc[HHolder(t)].ptr][1]]
    /\ UNCHANGED <<handle, mapval, vecval, mtx, acc, temps, pc, i, printed, res, todo>>

\* end of the scope: the proxy that holds the lock is destroyed; a proxy it
\* was moved from is still to be destroyed
HarnessRelease(t) ==
    /\ i[t] < MaxAccess
    /\ Destroy(HHolder(t))
    /\ i' = IF acc[HAcc(t)].st = "moved" THEN i ELSE [i EXCEPT ![t] = @ + 1]
    /\ reg' = [reg EXCEPT ![t] = 0]
    /\ UNCHANGED <<handle, mapval, vecval, temps, pc, printed, res, todo>>

\* the moved-from proxy is destroyed after the proxy constructed from it
HarnessDropMovedFrom(t) ==
    /\ i[t] < MaxAccess
    /\ acc[HMoved(t)].st = "unlocked"
    /\ DestroyMovedFrom(HAcc(t))
    /\ i' = [i EXCEPT ![t] = @ + 1]
    /\ UNCHANGED <<handle, mapval, vecval, temps, pc, reg, printed, res, todo>>

HarnessNext ==
    \/ \E n \in 1..NCopies, src \in AroundHandles : HarnessCopy(n, src)
    \/ \E t \in Workers, h \in AroundHandles : HarnessAccess(t, h)
    \/ \E t \in Workers, x \in HarnessValues : HarnessWrite(t, x)
    \/ \E t \in Workers : HarnessRead(t)
    \/ \E t \in Workers : HarnessMove(t)
    \/ \E t \in Workers : HarnessRelease(t)
    \/ \E t \in Workers : HarnessDropMovedFrom(t)

SpecCopy == HarnessInit /\ [][HarnessNext]_vars

\* ======================================================= claims
LiveAcc == {a \in AccIds : acc[a].st = "locked"}
SafeLive == {a \in LiveAcc : acc[a].ptr \in SafeHandles}
\* thread t is between the load and the store of an increment
MidIncrement(t) == pc[t].l \in {"L111", "L112"} /\ pc[t].s = "store"
\* thread t has left func's increment loop
LoopDone(t) == pc[t].l \in {"L115", "L117", "L121", "done"}

\* C1: accessors of two different threads on the same safe_ptr value are never
\* alive together, whichever handles they came from, and no mutation by
\* another thread falls between the load and the store of an increment made
\* under one accessor.
C1_MutualExclusion ==
    /\ \A a, b \in SafeLive :
            acc[a].ptr = acc[b].ptr => acc[a].thread = acc[b].thread
    /\ \A t \in Workers :
            MidIncrement(t) =>
                /\ acc[Top(t)].st = "locked"
                /\ mapval[acc[Top(t)].ptr][KeyOf(pc[t].l)].second = reg[t]

\* one thread is mid-increment under its accessor while another, with its own
\* copy of the handle, waits in its accessor's constructor for the same value
C1_Witness ==
    \E t, u \in Workers :
        /\ t # u
        /\ MidIncrement(t)
        /\ pc[u].s = "acq"
        /\ handle[Param(u)].ptr = acc[Top(t)].ptr
        /\ ~ENABLED ArrowAccess(u)
        /\ mapval[Global]["apple"].second > 0

\* C2: once every thread running func has finished, the map holds
\* apple = NThreads * K and potato = NThreads * K, and so does every count read
\* through a read-only accessor once all threads have left the loop.
C2_NoLostUpdate ==
    /\ ((\A t \in Workers : pc[t].l = "done") /\ handle[Global] # NullHandle) =>
            /\ mapval[Global]["apple"].second = NThreads * K
            /\ mapval[Global]["potato"].second = NThreads * K
    /\ \A t \in Workers : \A n \in {2, 4} :
            (printed[t][n].read /\ \A u \in Workers : LoopDone(u)) =>
                printed[t][n].second = NThreads * K

\* a thread reads the apple count through its read-only accessor when all the
\* other threads have finished
C2_Witness ==
    \E t \in Workers :
        /\ printed[t][2].read /\ printed[t][4].read
        /\ acc[AccId(t, "L117", 4)].st = "locked"
        /\ \A u \in Workers \ {t} : pc[u].l = "done"

\* C3: every live accessor belongs to the thread that owns its mutex, and the
\* hold count of every mutex is the number of live accessors on it.
C3_HoldCount ==
    /\ \A a \in LiveAcc : mtx[acc[a].mtx].owner = acc[a].thread
    /\ \A m \in Handles :
            mtx[m].count = Cardinality({a \in LiveAcc : acc[a].mtx = m})

\* C4: a thread that holds an accessor is never made to wait by the
\* constructor of a further accessor on the same wrapper, and
\* test_execute_around has read the whole vector through tmp1 and tmp2 while
\* both are held.
C4_Reentrant ==
    /\ (pc[MainThread].s = "args" /\ temps[MainThread] # << >>)
            => ENABLED (\E n \in {1, 2} : ProxyArg(n))
    /\ At(MainThread, "L150", "ctor") => ENABLED NamedProxy
    /\ \A t \in Workers :
            (At(t, "L117", "acq") /\ temps[t] # << >>) => ENABLED ConstArrowAccess(t)
    /\ At(MainThread, "L156", "dtor") =>
            /\ acc[Tmp(1)].st = "locked" /\ acc[Tmp(2)].st = "locked"
            /\ mtx[acc[Tmp(1)].mtx] = [owner |-> MainThread, count |-> 2]
            /\ res = VecSize * VecFill

\* tmp1 and tmp2 are both held and the vector has been summed through them
C4_Witness ==
    /\ At(MainThread, "L156", "dtor")
    /\ acc[Tmp(1)].st = "locked" /\ acc[Tmp(2)].st = "locked"
    /\ acc[Tmp(2)].depth = 2
    /\ res = VecSize * VecFill

\* C5: an accessor releases its lock exactly once, at its destruction: none
\* while it is locked, one ever after.
C5_ReleasedOnce ==
    \A a \in AccIds :
        /\ acc[a].st = "locked" => acc[a].releases = 0
        /\ acc[a].st = "unlocked" => acc[a].releases = 1

\* C6: the step that destroys the last live accessor of a thread on a mutex
\* leaves the mutex free, so that the constructor of any other thread's
\* accessor, of either flavor, can take it at once.
C6_ScopedRelease ==
    [][\A a \in AccIds : \A t \in {acc[a].thread} : \A m \in {acc[a].mtx} :
            (/\ acc[a].st = "locked"
             /\ acc'[a].st # "locked"
             /\ Live(t, m)' = {}) =>
                /\ mtx'[m] = FreeMtx
                /\ \A u \in Threads \ {t} :
                        LockCanAcquire("x", m, u)' /\ LockCanAcquire("s", m, u)']_vars

\* a thread has just destroyed its accessor, and another thread that was
\* waiting for the lock can construct its own
C6_Witness ==
    \E t, u \in Workers :
        /\ t # u
        /\ At(t, "L108", "acq") /\ acc[AccId(t, "L107", 0)].st = "unlocked"
        /\ At(u, "L107", "acq")
        /\ mtx[handle[Param(u)].mtx] = FreeMtx
        /\ ENABLED IndexAccess(u)

\* C7 (as stated): no two safe_ptr handles refer to the same value or to the
\* same lock.
C7_SoleOwner ==
    \A g, h \in SafeHandles :
        g # h =>
            /\ handle[g].ptr # NULL => handle[g].ptr # handle[h].ptr
            /\ handle[g].mtx # NULL => handle[g].mtx # handle[h].mtx

\* C7 (amended): every safe_ptr handle of the program is the global or a copy
\* of it, and refers to the global's value and, unless it is a thread's stored
\* copy that has been moved from, to the global's lock.
C7_CopiesShare ==
    \A h \in SafeHandles :
        handle[h] # NullHandle =>
            /\ handle[h].ptr = handle[Global].ptr
            /\ \/ handle[h].mtx = handle[Global].mtx
               \/ h.h = "stored" /\ handle[h].mtx = NULL

\* func's parameter and its const local copy exist beside the global
C7_Witness ==
    \E t \in Workers :
        /\ handle[Param(t)] # NullHandle
        /\ handle[ReadOnly(t)] # NullHandle
        /\ handle[ReadOnly(t)] = handle[Global]
        /\ handle[Stored(t)].mtx = NULL

\* C8: all copies of an execute_around handle refer to one vector and one
\* mutex: what an accessor obtained from any of them reads is what was last
\* written through an accessor of any other.
C8_CopiesAlias ==
    /\ \A g, h \in AroundHandles :
            (handle[g] # NullHandle /\ handle[h] # NullHandle) =>
                /\ vecval[handle[g].ptr] = vecval[handle[h].ptr]
                /\ handle[g].mtx = handle[h].mtx
    /\ \A a \in LiveAcc : \A h \in AroundHandles :
            handle[h] # NullHandle => vecval[acc[a].ptr] = vecval[handle[h].ptr]

\* the vector has been changed through one accessor and is read through an
\* accessor while two copies of the handle exist
C8_Witness ==
    \E a \in HarnessAccIds \cap LiveAcc :
        /\ a.n > 0
        /\ \A n \in 1..NCopies : handle[Copy(n)] # NullHandle
        /\ reg[a.t] = VecFill + 1
        /\ vecval[handle[Copy(1)].ptr][1] = VecFill + 1

\* a live accessor of another thread on mutex m, of the given flavors
OthersHold(t, m, flavors) ==
    \E a \in LiveAcc : acc[a].mtx = m /\ acc[a].thread # t /\ acc[a].flavor \in flavors

\* C9 (as stated): shared accessors of different threads may be alive
\* together: the constructor of a shared accessor waits for nothing but an
\* exclusive accessor of another thread.
C9_SharedConcurrent ==
    \A t \in Workers :
        (At(t, "L117", "acq") /\ ~OthersHold(t, handle[ReadOnly(t)].mtx, {"x"}))
            => ENABLED ConstArrowAccess(t)

\* C9 (amended): a shared accessor is never alive together with an accessor
\* of another thread on the same value, shared or exclusive.
C9_SharedExcludesAll ==
    \A a \in LiveAcc :
        acc[a].flavor = "s" => ~OthersHold(acc[a].thread, acc[a].mtx, {"s", "x"})

\* one thread holds shared accessors while another waits in the constructor
\* of its own shared accessor
C9_Witness ==
    \E t, u \in Workers :
        /\ t # u
        /\ At(u, "L117", "acq") /\ temps[u] = << >>
        /\ acc[AccId(t, "L117", 1)].st = "locked"
        /\ ~ENABLED ConstArrowAccess(u)

\* C10: a read-only access holds the very mutex mutable access takes, as its
\* owner; every read of the output statement is made under it; and the
\* threads' output statements never overlap.
C10_ReadOnlyLocks ==
    /\ \A a \in LiveAcc :
            acc[a].flavor = "s" =>
                /\ acc[a].mtx = handle[Param(acc[a].thread)].mtx
                /\ mtx[acc[a].mtx].owner = acc[a].thread
                /\ mtx[acc[a].mtx].count >= 1
    /\ \A t \in Workers :
            At(t, "L117", "read") =>
                acc[Top(t)].st = "locked" /\ mtx[acc[Top(t)].mtx].owner = t
    /\ \A t, u \in Workers :
            (t # u /\ pc[t].l = "L117" /\ pc[u].l = "L117") =>
                temps[t] = << >> \/ temps[u] = << >>

\* a thread holds all four read-only accessors of its output statement while
\* another thread is at its own output statement
C10_Witness ==
    \E t, u \in Workers :
        /\ t # u
        /\ At(t, "L117", "end") /\ Len(temps[t]) = 4
        /\ mtx[handle[ReadOnly(t)].mtx] = [owner |-> t, count |-> 4]
        /\ At(u, "L117", "acq")

\* thread t holds the lock of the value accessor a points to, through a
HoldsThrough(t, a) ==
    /\ acc[a].st = "locked"
    /\ acc[a].thread = t
    /\ mtx[acc[a].mtx] # FreeMtx
    /\ mtx[acc[a].mtx].owner = t
    /\ \E h \in Handles : handle[h].ptr = acc[a].ptr /\ handle[h].mtx = acc[a].mtx

\* C11: every step that reads or writes a wrapped value (the keyed write, the
\* load and the store of an increment, a read of the output statement, the
\* summing of the vector) is taken only in a state where the acting thread
\* holds the value's lock through the live accessor the step goes through.
C11_AccessUnderAccessor ==
    /\ \A t \in Workers :
            (ENABLED IndexWrite(t) \/ ENABLED Load(t) \/ ENABLED Store(t)
                \/ ENABLED ReadField(t)) =>
                /\ temps[t] # << >>
                /\ HoldsThrough(t, Top(t))
    /\ ENABLED Accumulate =>
            /\ HoldsThrough(MainThread, AccId(MainThread, pc[MainThread].l, 1))
            /\ HoldsThrough(MainThread, AccId(MainThread, pc[MainThread].l, 2))
    /\ ENABLED AccumulateNamed =>
            HoldsThrough(MainThread, Tmp(1)) /\ HoldsThrough(MainThread, Tmp(2))

\* the vector has been summed under two proxies, and a thread is about to store
\* its increment under its accessor while another thread is kept out
C11_Witness ==
    \E t, u \in Workers :
        /\ t # u
        /\ ENABLED Store(t) /\ HoldsThrough(t, Top(t))
        /\ pc[u].s = "acq" /\ pc[u].l \in {"L111", "L112"}
        /\ reg[t] > 0
        /\ res = VecSize * VecFill

\* C12: a step that destroys a held accessor destroys the one acquired last
\* among those its thread holds on the mutex; while others remain the thread
\* still owns the mutex and no other thread can take it, and the mutex is free
\* exactly after the destruction of the accessor acquired first.
C12_ReverseRelease ==
    [][\A a \in AccIds : \A t \in {acc[a].thread} : \A m \in {acc[a].mtx} :
            (acc[a].st = "locked" /\ acc'[a].st # "locked") =>
                /\ \A b \in Live(t, m) \ {a} : acc[b].depth < acc[a].depth
                /\ acc[a].depth = Cardinality(Live(t, m))
                /\ acc[a].depth > 1 =>
                        /\ mtx'[m].owner = t
                        /\ \A u \in Threads \ {t} : ~LockCanAcquire("x", m, u)'
                /\ (mtx'[m] = FreeMtx) <=> (acc[a].depth = 1)]_vars

\* a thread has destroyed the last two of the four accessors of its output
\* statement and still holds the other two, keeping another thread out
C12_Witness ==
    \E t, u \in Workers :
        /\ t # u
        /\ At(t, "L117", "end") /\ Len(temps[t]) = 2
        /\ acc[AccId(t, "L117", 4)].st = "unlocked"
        /\ acc[AccId(t, "L117", 3)].st = "unlocked"
        /\ acc[AccId(t, "L117", 2)].st = "locked"
        /\ mtx[acc[AccId(t, "L117", 1)].mtx] = [owner |-> t, count |-> 2]
        /\ pc[u].s = "acq" /\ pc[u].l \in {"L111", "L112", "L117"}
        /\ ~ENABLED ConstArrowAccess(u) /\ ~ENABLED ArrowAccess(u)

\* lock() and unlock() calls the accessors have made on mutex m (a destructor
\* runs at most twice on one accessor)
Acquired(m) == Cardinality({a \in AccIds : acc[a].mtx = m /\ acc[a].acqs >= 1})
Released(m) ==
    Cardinality({a \in AccIds : acc[a].mtx = m /\ acc[a].releases >= 1})
        + Cardinality({a \in AccIds : acc[a].mtx = m /\ acc[a].releases >= 2})

\* C13: an accessor constructed by move has acquired nothing, the accessor it
\* was moved from has released nothing, before or after its destruction, and
\* on every mutex the releases made so far are the acquisitions made so far
\* less the accessors still holding it: equal once none is held.
C13_MoveBalanced ==
    /\ \A a \in AccIds :
            /\ a.site = "hmoved" => acc[a].acqs = 0
            /\ acc[a].st \in {"moved", "spent"} => acc[a].releases = 0
    /\ \A m \in Handles :
            Released(m) + Cardinality({a \in LiveAcc : acc[a].mtx = m}) = Acquired(m)

\* a moved-from proxy and the proxy constructed from it have both been destroyed
C13_Witness ==
    \E t \in Workers :
        /\ i[t] > 0
        /\ acc[AccId(t, "harness", 0)].st = "spent"
        /\ acc[AccId(t, "hmoved", 0)].st = "unlocked"
        /\ acc[AccId(t, "hmoved", 0)].releases = 1

\* C14: while a client thread keeps a proxy alive, over however many steps,
\* it owns the mutex, and no other thread can complete an access call through
\* any handle of the wrapper: the call has no other outcome than to wait.
C14_NamedAccessorBlocks ==
    \A a \in HarnessAccIds \cap LiveAcc :
        /\ mtx[acc[a].mtx].owner = acc[a].thread
        /\ mtx[acc[a].mtx].count >= 1
        /\ \A u \in Workers \ {acc[a].thread} :
                /\ \A h \in AroundHandles :
                        handle[h].mtx = acc[a].mtx => ~ENABLED HarnessAccess(u, h)
                /\ ~ENABLED (HarnessRead(u) \/ HarnessRelease(u) \/ HarnessMove(u))

\* a thread has written and read the vector under one proxy it still holds,
\* and another thread, which has accesses left to make, cannot get in through
\* a copy of the handle
C14_Witness ==
    \E t, u \in Workers :
        /\ t # u
        /\ i[t] < MaxAccess /\ acc[HHolder(t)].st = "locked"
        /\ reg[t] = VecFill + 1
        /\ i[u] < MaxAccess
        /\ handle[Copy(1)] # NullHandle
        /\ ~ENABLED HarnessAccess(u, Copy(1))

\* the handle whose operator (or whose get_p() and get_mtx()) produced an
\* accessor of the program
Producer(a) ==
    CASE a.site \in {"L107", "L108", "L111", "L112"} -> Param(a.t)
      [] a.site = "L117" -> ReadOnly(a.t)
      [] OTHER -> Vecc

\* C15: while an accessor is alive the handle that produced it exists and
\* still refers to the accessor's value and mutex, so both have an owner: no
\* value or mutex without owners has a live accessor.
C15_AccessorWithinHandle ==
    /\ \A a \in LiveAcc \ HarnessAccIds :
            /\ acc[a].ptr # NULL /\ acc[a].mtx # NULL
            /\ handle[Producer(a)] = [ptr |-> acc[a].ptr, mtx |-> acc[a].mtx]
    /\ \A a \in LiveAcc :
            ValOwners(acc[a].ptr) # {} /\ MtxOwners(acc[a].mtx) # {}

\* a thread holds the four accessors of its output statement, produced by its
\* const copy of the handle, after another thread has returned from func and
\* dropped its handles, and after vecc was destroyed behind tmp1 and tmp2
C15_Witness ==
    \E t, u \in Workers :
        /\ t # u
        /\ At(t, "L117", "end") /\ Len(temps[t]) = 4
        /\ acc[AccId(t, "L117", 4)].st = "locked"
        /\ pc[u].l = "done" /\ handle[Param(u)] = NullHandle
        /\ acc[AccId(u, "L117", 1)].st = "unlocked"
        /\ handle[Vecc] = NullHandle /\ acc[Tmp(1)] = Gone

\* test_safe_ptr has returned: every thread has run func to its end and been
\* joined
SafePtrTestDone ==
    /\ At(MainThread, "L177", "loop")
    /\ \A t \in Workers : pc[t].l = "done" /\ i[t] = K /\ temps[t] = << >>

\* C16: under fair scheduling, once test_safe_ptr starts spawning its threads
\* every thread runs func to its end and every join returns; and in no state
\* of the program are all threads unable to step, except when main has
\* returned.
C16_Terminates ==
    /\ [](ENABLED Next \/ At(MainThread, "done", "done"))
    /\ At(MainThread, "L163", "spawn") ~> SafePtrTestDone

\* test_safe_ptr has returned with all increments of all threads made
C16_Witness ==
    /\ SafePtrTestDone
    /\ handle[Global] # NullHandle
    /\ mapval[Global]["apple"].second = NThreads * K
    /\ mapval[Global]["potato"].second = NThreads * K
    /\ \A t \in Workers : acc[AccId(t, "L117", 1)].st = "unlocked"

\* thread t has stored its increment of apple and not yet that of potato
BetweenIncrements(t) ==
    \/ At(t, "L111", "end")
    \/ pc[t].l = "L112" /\ pc[t].s \in {"acq", "load", "store"}

\* the counter of a key in the global map
Counter(k) == mapval[Global][k].second

\* C17: the apple counter exceeds the potato counter by exactly the number of
\* threads that have incremented apple and not yet potato in their current
\* round, so that potato <= apple <= potato + NThreads.
C17_CountersApart ==
    /\ Counter("potato") <= Counter("apple")
    /\ Counter("apple") <= Counter("potato") + NThreads
    /\ Counter("apple") - Counter("potato")
            = Cardinality({t \in Workers : BetweenIncrements(t)})

\* every thread is between its two increments, in a later round
C17_Witness ==
    /\ Counter("apple") = Counter("potato") + NThreads
    /\ Counter("potato") > 0
    /\ \A t \in Workers : BetweenIncrements(t)
    /\ \E t \in Workers : At(t, "L112", "store")

\* C18: while a thread is in its output statement every accessor the statement
\* has constructed so far is still held, the thread owns the mutex once per
\* accessor, no other thread holds an accessor on the map, and every value
\* the statement has read so far is the value the map holds now: the four
\* values it prints are those of the one state of the map at the end of the
\* statement.
C18_OutputUnderOneLock ==
    \A t \in Workers :
        (pc[t].l = "L117" /\ temps[t] # << >>) =>
            /\ \A n \in 1..Len(temps[t]) : acc[AccId(t, "L117", n)].st = "locked"
            /\ mtx[handle[ReadOnly(t)].mtx] = [owner |-> t, count |-> Len(temps[t])]
            /\ \A a \in SafeLive : acc[a].thread = t
            /\ \A n \in 1..4 :
                    printed[t][n].read =>
                        printed[t][n] =
                            FieldRead(n, mapval[handle[ReadOnly(t)].ptr][FieldKey(n)])

\* a thread has made its four reads and holds all four accessors while another
\* thread, still in its loop, waits for the lock
C18_Witness ==
    \E t, u \in Workers :
        /\ t # u
        /\ At(t, "L117", "end") /\ Len(temps[t]) = 4
        /\ \A n \in 1..4 : printed[t][n].read
        /\ printed[t][4].second < NThreads * K
        /\ pc[u].l \in {"L111", "L112"} /\ pc[u].s = "acq"
        /\ ~ENABLED ArrowAccess(u)

C20_KeyedWriteFrame ==
    [][\A t \in Workers :
            (pc[t].l \in {"L107", "L108"} /\ pc[t].s = "op" /\ pc'[t].s = "end") =>
                \A k \in {KeyOf(pc[t].l)} : \A v \in {acc[Top(t)].ptr} :
                    /\ mapval'[v][k].present
                    /\ mapval'[v][k].first = Label(k)
                    /\ mapval'[v][k].second =
                            IF mapval[v][k].present THEN mapval[v][k].second ELSE 0
                    /\ \A j \in Keys \ {k} : mapval'[v][j] = mapval[v][j]
                    /\ \A w \in SafeHandles \ {v} : mapval'[w] = mapval[w]]_vars

\* a thread has made its keyed write of potato when other threads had already
\* counted both keys up
C20_Witness ==
    \E t \in Workers :
        /\ At(t, "L108", "end")
        /\ i[t] = 0
        /\ mapval[Global]["potato"] = [present |-> TRUE, first |-> "vegetable", second |-> K]
        /\ Counter("apple") = K

====
